---- MODULE Spec2Model ----
(***************************************************************************)
(* Model of src/app/page.js (CannonSimulator): the projectile flight loop, *)
(* the orbit camera's presets, drag, wheel and tracking, the delayed       *)
(* target reset, the trajectory preview, the kinematic functions, the      *)
(* unmounting and React's commit of queued state updates.                  *)
(*                                                                         *)
(* Units.  Date.now() is read in deciseconds (1 ds = 100 ms).  Lengths are *)
(* integers in units of 1/20 mm (UnitsPerMetre per metre), chosen so that  *)
(* y0 + vy*t - 0.5*g*t*t is an exact integer for t in deciseconds.  Sines  *)
(* and cosines are in thousandths.  Velocities are whole m/s.  A number    *)
(* formatted by toFixed(2) is the integer number of hundredths it shows.   *)
(* Flight times, and the sample times of the preview, are in milliseconds; *)
(* camera angles are in milliradians.  A quotient or a square root the     *)
(* code computes in floating point is rounded to the nearest integer.      *)
(***************************************************************************)
EXTENDS Integers, Sequences, FiniteSets, TLC

VARIABLES
    now,                \* Date.now(), in deciseconds
    rendered,           \* React state of the last committed render
    pending,            \* React state once the queued updates are applied
    syncLane,           \* updates queued by a handler call, not yet committed
    projectileStateRef, \* projectileStateRef.current
    projectile,         \* projectileRef.current: visible, position
    cameraControls,     \* cameraControlsRef.current
    cameraPosition,     \* cameraRef.current.position
    rafQueue,           \* callbacks registered with requestAnimationFrame
    timers,             \* due times of the pending setTimeout callbacks
    trajectoryLine,     \* points of trajectoryLineRef.current's geometry
    mounted,            \* the component is mounted: its cleanups have not run
    call,               \* arguments of a call of a kinematic function
    returned            \* what the call returned

vars == <<now, rendered, pending, syncLane, projectileStateRef, projectile,
          cameraControls, cameraPosition, rafQueue, timers, trajectoryLine,
          mounted, call, returned>>

(***************************************************************************)
(* Bounds of the model.                                                    *)
(***************************************************************************)
MaxSteps == 3       \* the clock is read at 0, ClockStep, ..., MaxSteps * ClockStep
ClockStep == 5      \* deciseconds between two readings of the clock
MaxLoops == 2       \* flight loops registered at once
MaxTransitions == 1 \* preset transitions running at once
MaxOverlap == 2     \* the same, where the transitions are explored
MaxCameraSteps == 1 \* MaxSteps, where the camera is explored
MaxAzimuth == 900   \* |rotation.y| a drag may reach, in milliradians
FireBySteps == 1    \* where flights run to their end: fire() until this step
FlightSteps == 7    \* and this many steps after it (the longest flight, 3.2 s)

Angles == {15, 45}
\* arguments of the calls of the kinematic functions: angles in degrees,
\* velocities in m/s, launch heights in metres (below the ground too)
CallAngles == {15, 30, 45, 60, 75, 90}
CallVelocities == {10, 20, 30, 40}
CallHeights == {-100, -1, 0, 2, 5}
Velocities == {10, 20}
\* the presets selected in the behaviours explored: follow, the one mode the
\* flight loop and the reset effect test for, and overview for the other
\* three, which differ from one another only in their pose (PresetPose)
Modes == {"overview", "follow"}
Presets == {"overview", "follow", "side", "closeup"}
\* clientX, clientY of the pointer events, in pixels
PointerPositions == {[x |-> 0, y |-> 280], [x |-> 300, y |-> 0]}
\* deltaY of the wheel events
WheelDeltas == {-2000, 2000}
\* the pointer samples of the drags of several moves (clientX, clientY)
DragSamples == {[x |-> 0, y |-> 0], [x |-> 100, y |-> 100],
                [x |-> 300, y |-> 300]}

(***************************************************************************)
(* Program constants.                                                      *)
(***************************************************************************)
UnitsPerMetre == 20000
GRAVITY == 981          \* 9.81 m/s^2, in cm/s^2
MOUNT_HEIGHT == 30000   \* 1.5 m
BARREL_LENGTH == 3      \* metres
LandingGraceMs == 100   \* the 0.1 s added to timeOfFlight
ResetDelay == 5         \* setTimeout(..., 500)
TransitionDuration == 5 \* duration = 500

Metres(n) == n * UnitsPerMetre

(***************************************************************************)
(* Math.sin / Math.cos of an angle in degrees, in thousandths.             *)
(***************************************************************************)
SinDeg(a) ==
    CASE a = 15 -> 259 [] a = 30 -> 500 [] a = 45 -> 707
      [] a = 60 -> 866 [] a = 75 -> 966 [] a = 90 -> 1000

CosDeg(a) ==
    CASE a = 15 -> 966 [] a = 30 -> 866 [] a = 45 -> 707
      [] a = 60 -> 500 [] a = 75 -> 259 [] a = 90 -> 0

(***************************************************************************)
(* A floating-point operation returns the representable number nearest to  *)
(* the exact result; here the representable numbers are the integers.      *)
(* RoundDiv is the division, Sqrt the square root (SqrtBetween finds the   *)
(* largest r with r*r <= n).                                               *)
(***************************************************************************)
RoundDiv(n, d) == (n + d \div 2) \div d

RECURSIVE SqrtBetween(_, _, _)
SqrtBetween(n, lo, hi) ==
    IF lo >= hi THEN lo
    ELSE LET mid == (lo + hi + 1) \div 2
         IN  IF mid * mid <= n THEN SqrtBetween(n, mid, hi)
             ELSE SqrtBetween(n, lo, mid - 1)

Sqrt(n) ==
    LET r == SqrtBetween(n, 0, 46340)
    IN  IF n - r * r > r THEN r + 1 ELSE r

(***************************************************************************)
(* Number.prototype.toFixed(2) of a length: the hundredths shown, rounded  *)
(* half away from zero.                                                    *)
(***************************************************************************)
ToFixed2(u) ==
    LET perCenti == UnitsPerMetre \div 100
        half     == perCenti \div 2
    IN  IF u >= 0 THEN (u + half) \div perCenti
        ELSE -((-u + half) \div perCenti)

(***************************************************************************)
(* SECTION 5 of the source: the kinematic equations.                       *)
(* time is in deciseconds, y0 and the result in length units.              *)
(***************************************************************************)
calculateTrajectory(angle, v0, time, y0) ==
    [x |-> 2 * v0 * CosDeg(angle) * time,
     y |-> y0 + 2 * v0 * SinDeg(angle) * time - GRAVITY * time * time]

\* mutants of calculateFlightTime: the launch height ignored; the root
\* with the minus sign and no test of the discriminant
calculateFlightTime_levelGround(angle, v0, y0) ==
    RoundDiv(2 * v0 * SinDeg(angle) * 100, GRAVITY)

calculateFlightTime_otherRoot(angle, v0, y0) ==
    LET vy           == v0 * SinDeg(angle)
        discriminant == vy * vy + GRAVITY * y0
    IN  RoundDiv((vy - Sqrt(discriminant)) * 100, GRAVITY)

\* the result is in milliseconds
calculateFlightTime(angle, v0, y0) ==
    LET vy           == v0 * SinDeg(angle)            \* mm/s
        discriminant == vy * vy + GRAVITY * y0        \* (mm/s)^2
    IN  IF discriminant < 0 THEN 0
        ELSE RoundDiv((vy + Sqrt(discriminant)) * 100, GRAVITY)

\* calculateTrajectory for a time in milliseconds, as the preview and the
\* kinematic identities need it: x = vx*t, y = y0 + vy*t - 0.5*g*t*t, with
\* t*t split in hundreds so that the products stay within 32 bits
calculateTrajectoryMs(angle, v0, ms, y0) ==
    LET q == ms \div 100
        r == ms % 100
    IN  [x |-> RoundDiv(v0 * CosDeg(angle) * ms, 50),
         y |-> y0 + RoundDiv(v0 * SinDeg(angle) * ms, 50)
                  - (GRAVITY * q * q
                     + RoundDiv(GRAVITY * (200 * q * r + r * r), 10000))]

calculateRange(angle, v0, y0) ==
    LET t_flight == calculateFlightTime(angle, v0, y0)
    IN  RoundDiv(v0 * CosDeg(angle) * t_flight, 50)

calculateMaxHeight(angle, v0, y0) ==
    LET vy == v0 * SinDeg(angle)
    IN  y0 + (vy * vy) \div GRAVITY

\* y0 and startX of fireProjectile
MuzzleHeight(angle) == MOUNT_HEIGHT + BARREL_LENGTH * 20 * SinDeg(angle)
MuzzleX(angle) == BARREL_LENGTH * 20 * CosDeg(angle)

\* lines 376-392: the points updateTrajectoryPreview hands to the line
PreviewSteps == 100

\* the loop of lines 384-390: the sample of every i, then those kept
PreviewSample(angle, v0, y0, timeOfFlight, i) ==
    LET t   == RoundDiv(i * timeOfFlight, PreviewSteps)
        pos == calculateTrajectoryMs(angle, v0, t, y0)
    IN  [x |-> MuzzleX(angle) + pos.x, y |-> pos.y, z |-> 0]

updateTrajectoryPreview(angle, v0) ==
    LET y0 == MuzzleHeight(angle)
        timeOfFlight == calculateFlightTime(angle, v0, y0)
        samples == [k \in 1..(PreviewSteps + 1) |->
                      PreviewSample(angle, v0, y0, timeOfFlight, k - 1)]
    IN  SelectSeq(samples, LAMBDA point : point.y >= 0)

(***************************************************************************)
(* Math.sin / Math.cos of an angle in milliradians, in thousandths: the    *)
(* Taylor polynomial to the ninth power after reduction to [0, pi/2].      *)
(***************************************************************************)
PiMrad == 3142
HalfPiMrad == 1571

\* lines 236-242, 251-252: the speeds and the clamps of the orbit camera
RotateSpeed == 5                    \* 0.005 rad per pixel
MinElevation == 100                 \* 0.1
MaxElevation == HalfPiMrad - 100    \* Math.PI / 2 - 0.1
ZoomSpeed == 1000                   \* 0.05 m per unit of deltaY
MinDistance == 100000               \* 5 m
MaxDistance == 2000000              \* 100 m

Clamp(lo, hi, v) == IF v < lo THEN lo ELSE IF v > hi THEN hi ELSE v

SinQuadrant(x) ==
    LET x2 == (x * x) \div 1000
        t3 == (x * x2) \div 6000
        t5 == (t3 * x2) \div 20000
        t7 == (t5 * x2) \div 42000
        t9 == (t7 * x2) \div 72000
        s  == x - t3 + t5 - t7 + t9
    IN  IF s > 1000 THEN 1000 ELSE s

SinMrad(a) ==
    LET r == a % (2 * PiMrad)
    IN  IF r <= HalfPiMrad THEN SinQuadrant(r)
        ELSE IF r <= PiMrad THEN SinQuadrant(PiMrad - r)
        ELSE IF r <= PiMrad + HalfPiMrad THEN -SinQuadrant(r - PiMrad)
        ELSE -SinQuadrant(2 * PiMrad - r)

CosMrad(a) == SinMrad(a + HalfPiMrad)

(***************************************************************************)
(* The eye position derived from the logical pose (updateCameraPosition,   *)
(* and the same three lines in both animate closures).                     *)
(***************************************************************************)
Scaled(d, s, c) == (((d * s) \div 1000) * c) \div 1000

\* (the pose and its sines and cosines are computed once, as members of a set)
EyePosition(controls) ==
    CHOOSE eye \in
      {[x |-> c.target.x + Scaled(c.distance, sy, cx),
        y |-> c.target.y + (c.distance * sx) \div 1000,
        z |-> c.target.z + Scaled(c.distance, cy, cx)] :
         <<c, sx, cx, sy, cy>> \in
           {<<c1, SinMrad(c1.rotation.x), CosMrad(c1.rotation.x),
              SinMrad(c1.rotation.y), CosMrad(c1.rotation.y)>> :
                c1 \in {controls}}} : TRUE

Vector3(x, y, z) == [x |-> x, y |-> y, z |-> z]

\* THREE.Vector3.lerpVectors(v1, v2, alpha), alpha = num/den
LerpVectors(v1, v2, num, den) ==
    [x |-> v1.x + ((v2.x - v1.x) * num) \div den,
     y |-> v1.y + ((v2.y - v1.y) * num) \div den,
     z |-> v1.z + ((v2.z - v1.z) * num) \div den]

(***************************************************************************)
(* The mutable objects a handler or callback reads and writes, as one      *)
(* record, so that each function of the source is an operator from the     *)
(* record before the call to the record after it.  `rendered` and `now`    *)
(* are read directly: a handler sees the state of the render that made it. *)
(***************************************************************************)
Heap ==
    [pending            |-> pending,
     projectileStateRef |-> projectileStateRef,
     projectile         |-> projectile,
     cameraControls     |-> cameraControls,
     cameraPosition     |-> cameraPosition,
     rafQueue           |-> rafQueue]

Store(h) ==
    /\ pending' = h.pending
    /\ projectileStateRef' = h.projectileStateRef
    /\ projectile' = h.projectile
    /\ cameraControls' = h.cameraControls
    /\ cameraPosition' = h.cameraPosition
    /\ rafQueue' = h.rafQueue

FlightLoops(q) == SelectSeq(q, LAMBDA c : c.kind = "flight")
Transitions(q) == SelectSeq(q, LAMBDA c : c.kind = "preset")

(***************************************************************************)
(* SECTION 6 of the source: fireProjectile and its animate closure.        *)
(***************************************************************************)
\* mutants of Landed: the ground test dropped; the ground test one metre low
Landed_onlyByTime(pos, elapsed, timeOfFlight) ==
    elapsed * 100 > timeOfFlight + LandingGraceMs

Landed_belowGround(pos, elapsed, timeOfFlight) ==
    \/ pos.y < -Metres(1)
    \/ elapsed * 100 > timeOfFlight + LandingGraceMs

\* line 430: pos.y < 0 || elapsed > timeOfFlight + 0.1
Landed(pos, elapsed, timeOfFlight) ==
    \/ pos.y < 0
    \/ elapsed * 100 > timeOfFlight + LandingGraceMs

\* lines 443-456: the camera follows when the closure's cameraMode is follow
Follows(c) == c.cameraMode = "follow"

\* mutant of PublishReadout: the previous readouts are not spread
PublishReadout_dropsPrev(prev, elapsed, worldX, worldY) ==
    [range |-> 0, maxHeight |-> 0, timeOfFlight |-> 0,
     currentTime |-> elapsed * 10,
     position |-> [x |-> ToFixed2(worldX), y |-> ToFixed2(worldY)]]

\* lines 457-461: setProjectileData((prev) => ({...prev, currentTime, position}))
PublishReadout(prev, elapsed, worldX, worldY) ==
    [prev EXCEPT !.currentTime = elapsed * 10,
                 !.position = [x |-> ToFixed2(worldX), y |-> ToFixed2(worldY)]]

\* mutant of Land: the loop's active flag is left set
Land_keepsActive(h) ==
    [h EXCEPT !.projectile.visible = FALSE,
              !.pending.isFiring = FALSE,
              !.pending.showPanel = TRUE]

\* mutant of Land: the firing flag is left set
Land_keepsFiring(h) ==
    [h EXCEPT !.projectileStateRef.active = FALSE,
              !.projectile.visible = FALSE,
              !.pending.showPanel = TRUE]

\* lines 431-436: the projectile landed
Land(h) ==
    [h EXCEPT !.projectileStateRef.active = FALSE,
              !.projectile.visible = FALSE,
              !.pending.isFiring = FALSE,
              !.pending.showPanel = TRUE]

\* mutant of FlightAnimate: the muzzle's horizontal offset is left out
FlightAnimate_noMuzzleOffset(c, h) ==
    IF ~h.projectileStateRef.active THEN h
    ELSE
      LET elapsed == now - c.startTime
          pos == calculateTrajectory(c.cannonAngle, c.initialVelocity,
                                     elapsed, c.y0)
      IN  IF Landed(pos, elapsed, c.timeOfFlight)
          THEN Land(h)
          ELSE
            LET worldX == pos.x
                worldY == pos.y
                controls == IF Follows(c)
                            THEN [h.cameraControls EXCEPT
                                    !.target = Vector3(worldX, worldY, 0)]
                            ELSE h.cameraControls
            IN  [h EXCEPT
                   !.projectile.position = Vector3(worldX, worldY, 0),
                   !.cameraControls = controls,
                   !.cameraPosition = IF Follows(c) THEN EyePosition(controls)
                                      ELSE @,
                   !.pending.projectileData =
                        PublishReadout(@, elapsed, worldX, worldY),
                   !.rafQueue = Append(@, c)]

\* lines 421-463: one call of fireProjectile's animate, closure c
FlightAnimate(c, h) ==
    IF ~h.projectileStateRef.active THEN h
    ELSE
      LET elapsed == now - c.startTime
          pos == calculateTrajectory(c.cannonAngle, c.initialVelocity,
                                     elapsed, c.y0)
      IN  IF Landed(pos, elapsed, c.timeOfFlight)
          THEN Land(h)
          ELSE
            LET worldX == c.startX + pos.x
                worldY == pos.y
                controls == IF Follows(c)
                            THEN [h.cameraControls EXCEPT
                                    !.target = Vector3(worldX, worldY, 0)]
                            ELSE h.cameraControls
            IN  [h EXCEPT
                   !.projectile.position = Vector3(worldX, worldY, 0),
                   !.cameraControls = controls,
                   !.cameraPosition = IF Follows(c) THEN EyePosition(controls)
                                      ELSE @,
                   !.pending.projectileData =
                        PublishReadout(@, elapsed, worldX, worldY),
                   !.rafQueue = Append(@, c)]

\* line 400: if (isFiring || !projectileRef.current) return;
\* isFiring is the value of the render that made this fireProjectile
FireRejected == rendered.isFiring

\* lines 397-465
fireProjectile(h) ==
    LET h1 == [h EXCEPT !.pending.showPanel = FALSE]
    IN  IF FireRejected THEN h1
        ELSE
          LET angle == rendered.cannonAngle
              v0 == rendered.initialVelocity
              y0 == MuzzleHeight(angle)
              startX == MuzzleX(angle)
              startY == y0
              timeOfFlight == calculateFlightTime(angle, v0, y0)
              range == calculateRange(angle, v0, y0)
              maxHeight == calculateMaxHeight(angle, v0, y0)
              c == [kind |-> "flight",
                    cannonAngle |-> angle,
                    initialVelocity |-> v0,
                    cameraMode |-> rendered.cameraMode,
                    y0 |-> y0,
                    startX |-> startX,
                    timeOfFlight |-> timeOfFlight,
                    startTime |-> now]
              h2 == [h1 EXCEPT
                       !.pending.isFiring = TRUE,
                       !.projectile.visible = TRUE,
                       !.pending.projectileData =
                           [range |-> ToFixed2(range),
                            maxHeight |-> ToFixed2(maxHeight),
                            timeOfFlight |-> (timeOfFlight + 5) \div 10,
                            currentTime |-> 0,
                            position |-> [x |-> ToFixed2(startX),
                                          y |-> ToFixed2(startY)]],
                       !.projectileStateRef = [active |-> TRUE, time |-> 0]]
          IN  FlightAnimate(c, h2)

(***************************************************************************)
(* SECTION 3 of the source: setCameraPreset and its animate closure.       *)
(***************************************************************************)
\* lines 284-305
PresetPose(mode) ==
    CASE mode = "overview" ->
           [rotation |-> [x |-> 300, y |-> 800], distance |-> Metres(30),
            target |-> Vector3(0, Metres(5), 0)]
      [] mode = "follow" ->
           [rotation |-> [x |-> 200, y |-> 0], distance |-> Metres(15),
            target |-> Vector3(Metres(10), Metres(5), 0)]
      [] mode = "side" ->
           [rotation |-> [x |-> 300, y |-> HalfPiMrad], distance |-> Metres(35),
            target |-> Vector3(0, Metres(5), 0)]
      [] mode = "closeup" ->
           [rotation |-> [x |-> 200, y |-> 500], distance |-> Metres(8),
            target |-> Vector3(0, Metres(3), 0)]

\* mutant of PresetAnimate: the next frame is requested whatever the progress
PresetAnimate_alwaysRequests(c, h) ==
    LET elapsed == now - c.startTime
        e == IF elapsed < TransitionDuration THEN elapsed
             ELSE TransitionDuration
        d == TransitionDuration
        left == d - e
        easedNum == d * d * d - left * left * left
        targetPos == EyePosition(h.cameraControls)
    IN  [h EXCEPT
           !.cameraPosition = LerpVectors(c.startPos, targetPos,
                                          easedNum, d * d * d),
           !.rafQueue = Append(@, c)]

\* lines 310-327: one call of setCameraPreset's animate, closure c
PresetAnimate(c, h) ==
    LET elapsed == now - c.startTime
        e == IF elapsed < TransitionDuration THEN elapsed
             ELSE TransitionDuration
        d == TransitionDuration
        left == d - e
        \* eased = 1 - (1 - progress)^3, as the fraction easedNum / (d*d*d)
        easedNum == d * d * d - left * left * left
        targetPos == EyePosition(h.cameraControls)
    IN  [h EXCEPT
           !.cameraPosition = LerpVectors(c.startPos, targetPos,
                                          easedNum, d * d * d),
           !.rafQueue = IF e < d THEN Append(@, c) ELSE @]

\* mutant of setCameraPreset: the logical pose is left for the transition
setCameraPreset_poseLater(mode, h) ==
    LET h1 == [h EXCEPT !.pending.cameraMode = mode]
        c == [kind |-> "preset",
              startPos |-> h.cameraPosition,
              startTime |-> now]
    IN  PresetAnimate(c, h1)

\* lines 281-329
setCameraPreset(mode, h) ==
    LET pose == PresetPose(mode)
        h1 == [h EXCEPT !.pending.cameraMode = mode,
                        !.cameraControls.rotation = pose.rotation,
                        !.cameraControls.distance = pose.distance,
                        !.cameraControls.target = pose.target]
        c == [kind |-> "preset",
              startPos |-> h.cameraPosition,
              startTime |-> now]
    IN  PresetAnimate(c, h1)

(***************************************************************************)
(* One animation frame: every callback registered before the frame runs    *)
(* once, in the order of registration; what a callback registers runs in   *)
(* the next frame.                                                         *)
(***************************************************************************)
RunCallback(c, h) ==
    IF c.kind = "flight" THEN FlightAnimate(c, h) ELSE PresetAnimate(c, h)

RECURSIVE RunCallbacks(_, _)
\* (the heap after each callback is computed once, as a member of a set)
RunCallbacks(q, h) ==
    IF q = <<>> THEN h
    ELSE CHOOSE after \in {RunCallbacks(Tail(q), h1) :
                             h1 \in {RunCallback(Head(q), h)}} : TRUE

(***************************************************************************)
(* React: a render commits the queued updates and runs the effects whose   *)
(* dependencies changed.  Lines 469-475: the effect on                     *)
(* [isFiring, cameraMode] sets a 500 ms timer when not firing in follow.   *)
(***************************************************************************)
ResetEffectRuns(before, after) ==
    /\ \/ after.isFiring # before.isFiring
       \/ after.cameraMode # before.cameraMode
    /\ ~after.isFiring
    /\ after.cameraMode = "follow"

\* lines 334-341: the effect on [cannonAngle, initialVelocity]
PreviewEffectRuns(before, after) ==
    \/ after.cannonAngle # before.cannonAngle
    \/ after.initialVelocity # before.initialVelocity

\* the preview of each launch the sliders can set
PreviewOf ==
    [angle \in Angles, v0 \in Velocities |->
       updateTrajectoryPreview(angle, v0)]

Commit(p) ==
    /\ rendered' = p
    /\ syncLane' = FALSE
    /\ trajectoryLine' =
         IF PreviewEffectRuns(rendered, p)
         THEN PreviewOf[p.cannonAngle, p.initialVelocity]
         ELSE trajectoryLine
    /\ timers' = IF ResetEffectRuns(rendered, p)
                 THEN timers \cup {now + ResetDelay}
                 ELSE timers

\* no kinematic function is being called
NoCall == [function |-> "none"]

InitialState ==
    [cannonAngle |-> 45,
     initialVelocity |-> 20,
     isFiring |-> FALSE,
     cameraMode |-> "overview",
     showPanel |-> FALSE,
     projectileData |-> [range |-> 0, maxHeight |-> 0, timeOfFlight |-> 0,
                         currentTime |-> 0, position |-> [x |-> 0, y |-> 0]]]

Mounted ==
    /\ now = 0
    /\ rendered = InitialState
    /\ pending = InitialState
    /\ syncLane = FALSE
    /\ projectileStateRef = [active |-> FALSE, time |-> 0]
    /\ projectile = [visible |-> FALSE, position |-> Vector3(0, 0, 0)]
    /\ cameraControls =
         [isDragging |-> FALSE,
          previousMousePosition |-> [x |-> 0, y |-> 0],
          rotation |-> [x |-> 300, y |-> 800],
          distance |-> Metres(30),
          target |-> Vector3(0, Metres(5), 0)]
    /\ cameraPosition = Vector3(Metres(15), Metres(15), Metres(25))
    /\ rafQueue = <<>>
    /\ timers = {}
    /\ trajectoryLine = updateTrajectoryPreview(InitialState.cannonAngle,
                                                InitialState.initialVelocity)
    /\ mounted = TRUE

Init ==
    /\ Mounted
    /\ call = NoCall
    /\ returned = NoCall

(***************************************************************************)
(* The operations.                                                         *)
(***************************************************************************)
\* fire(): a call of the current render's fireProjectile.  Calls made in
\* immediate succession run before React commits what they queued.
Fire ==
    /\ mounted
    /\ FireRejected \/ Len(FlightLoops(rafQueue)) < MaxLoops
    /\ Store(fireProjectile(Heap))
    /\ syncLane' = TRUE
    /\ UNCHANGED <<now, rendered, timers, trajectoryLine, mounted, call,
                   returned>>

\* React commits the queued updates
Render ==
    /\ mounted
    /\ syncLane \/ pending # rendered
    /\ Commit(pending)
    /\ UNCHANGED <<now, pending, projectileStateRef, projectile,
                   cameraControls, cameraPosition, rafQueue, mounted, call,
                   returned>>

\* the browser runs one animation frame; React drops the updates queued
\* for a component that has unmounted
Frame ==
    /\ ~syncLane
    /\ rafQueue # <<>>
    /\ UNCHANGED <<now, rendered, syncLane, timers, trajectoryLine, mounted,
                   call, returned>>
    /\ \E h \in {RunCallbacks(rafQueue, [Heap EXCEPT !.rafQueue = <<>>])} :
         Store([h EXCEPT !.pending = IF mounted THEN @ ELSE pending])

\* lines 471-473: a reset timer runs
TimerFire ==
    /\ ~syncLane
    /\ \E due \in timers :
         /\ due <= now
         /\ timers' = timers \ {due}
         /\ cameraControls' =
              [cameraControls EXCEPT !.target = Vector3(0, Metres(5), 0)]
    /\ UNCHANGED <<now, rendered, pending, syncLane, projectileStateRef,
                   projectile, cameraPosition, rafQueue, trajectoryLine,
                   mounted, call, returned>>

\* a click on a camera mode button (line 497); React commits at once
SelectPresetWithin(mode, limit) ==
    /\ mounted
    /\ ~syncLane
    /\ Len(Transitions(rafQueue)) < limit
    /\ LET h == setCameraPreset(mode, Heap)
       IN  Store(h) /\ Commit(h.pending)
    /\ UNCHANGED <<now, mounted, call, returned>>

SelectPreset(mode) == SelectPresetWithin(mode, MaxTransitions)

\* lines 228-231: mousedown on the canvas
MouseDown(e) ==
    /\ mounted
    /\ ~syncLane
    /\ cameraControls' = [cameraControls EXCEPT
                            !.isDragging = TRUE,
                            !.previousMousePosition = e]
    /\ UNCHANGED <<now, rendered, pending, syncLane, projectileStateRef,
                   projectile, cameraPosition, rafQueue, timers,
                   trajectoryLine, mounted, call, returned>>

\* mutant of handleMouseMove: the sample is not stored, so that every move
\* is measured from the pointer-down
handleMouseMove_fromPointerDown(e, controls) ==
    LET deltaX == e.x - controls.previousMousePosition.x
        deltaY == e.y - controls.previousMousePosition.y
    IN  [controls EXCEPT
           !.rotation.y = @ + deltaX * RotateSpeed,
           !.rotation.x = Clamp(MinElevation, MaxElevation,
                                @ + deltaY * RotateSpeed)]

\* mutant of handleMouseMove: the vertical rotation is not clamped
handleMouseMove_unclamped(e, controls) ==
    LET deltaX == e.x - controls.previousMousePosition.x
        deltaY == e.y - controls.previousMousePosition.y
    IN  [controls EXCEPT
           !.rotation.y = @ + deltaX * RotateSpeed,
           !.rotation.x = @ + deltaY * RotateSpeed,
           !.previousMousePosition = e]

\* lines 232-245: the pose after a mousemove at e
handleMouseMove(e, controls) ==
    LET deltaX == e.x - controls.previousMousePosition.x
        deltaY == e.y - controls.previousMousePosition.y
    IN  [controls EXCEPT
           !.rotation.y = @ + deltaX * RotateSpeed,
           !.rotation.x = Clamp(MinElevation, MaxElevation,
                                @ + deltaY * RotateSpeed),
           !.previousMousePosition = e]

\* mutant of MouseMove: the move is handled whether a drag is on or not
MouseMove_withoutDrag(e) ==
    /\ mounted
    /\ ~syncLane
    /\ LET controls == handleMouseMove(e, cameraControls)
       IN  /\ controls.rotation.y <= MaxAzimuth
           /\ controls.rotation.y >= -MaxAzimuth
           /\ cameraControls' = controls
           /\ cameraPosition' = EyePosition(controls)
    /\ UNCHANGED <<now, rendered, pending, syncLane, projectileStateRef,
                   projectile, rafQueue, timers, trajectoryLine, mounted,
                   call, returned>>

\* mousemove on the canvas; line 233: ignored unless a drag is on
MouseMove(e) ==
    /\ mounted
    /\ ~syncLane
    /\ IF ~cameraControls.isDragging
       THEN UNCHANGED <<cameraControls, cameraPosition>>
       ELSE LET controls == handleMouseMove(e, cameraControls)
            IN  /\ controls.rotation.y <= MaxAzimuth
                /\ controls.rotation.y >= -MaxAzimuth
                /\ cameraControls' = controls
                /\ cameraPosition' = EyePosition(controls)
    /\ UNCHANGED <<now, rendered, pending, syncLane, projectileStateRef,
                   projectile, rafQueue, timers, trajectoryLine, mounted,
                   call, returned>>

\* lines 246-248: mouseup or mouseleave on the canvas
MouseUp ==
    /\ mounted
    /\ ~syncLane
    /\ cameraControls' = [cameraControls EXCEPT !.isDragging = FALSE]
    /\ UNCHANGED <<now, rendered, pending, syncLane, projectileStateRef,
                   projectile, cameraPosition, rafQueue, timers,
                   trajectoryLine, mounted, call, returned>>

\* lines 249-254: wheel on the canvas
Wheel(deltaY) ==
    /\ mounted
    /\ ~syncLane
    /\ LET controls == [cameraControls EXCEPT
                          !.distance = Clamp(MinDistance, MaxDistance,
                                             @ + deltaY * ZoomSpeed)]
       IN  /\ cameraControls' = controls
           /\ cameraPosition' = EyePosition(controls)
    /\ UNCHANGED <<now, rendered, pending, syncLane, projectileStateRef,
                   projectile, rafQueue, timers, trajectoryLine, mounted,
                   call, returned>>

\* lines 212-218 and 270-276: the component unmounts.  The cleanups cancel
\* the render loop's frame and remove the listeners of the canvas; the
\* frames of the flight loops and of the transitions and the reset timers
\* stay registered.
Teardown ==
    /\ mounted
    /\ ~syncLane
    /\ pending = rendered
    /\ mounted' = FALSE
    /\ UNCHANGED <<now, rendered, pending, syncLane, projectileStateRef,
                   projectile, cameraControls, cameraPosition, rafQueue,
                   timers, trajectoryLine, call, returned>>

\* mutant of InputsDisabled: the inputs are never disabled
InputsDisabled_never == FALSE

\* lines 567, 582, 599, 614: disabled={isFiring}, as rendered
InputsDisabled == rendered.isFiring

\* a change event of an angle input (lines 559-584)
ChangeAngle(a) ==
    /\ mounted
    /\ ~syncLane
    /\ LET p == IF InputsDisabled THEN pending
                ELSE [pending EXCEPT !.cannonAngle = a]
       IN  pending' = p /\ Commit(p)
    /\ UNCHANGED <<now, projectileStateRef, projectile, cameraControls,
                   cameraPosition, rafQueue, mounted, call, returned>>

\* a change event of a velocity input (lines 591-616)
ChangeVelocity(v) ==
    /\ mounted
    /\ ~syncLane
    /\ LET p == IF InputsDisabled THEN pending
                ELSE [pending EXCEPT !.initialVelocity = v]
       IN  pending' = p /\ Commit(p)
    /\ UNCHANGED <<now, projectileStateRef, projectile, cameraControls,
                   cameraPosition, rafQueue, mounted, call, returned>>

\* a click on the mobile controls button (line 521)
TogglePanel ==
    /\ mounted
    /\ ~syncLane
    /\ LET p == [pending EXCEPT !.showPanel = ~rendered.showPanel]
       IN  pending' = p /\ Commit(p)
    /\ UNCHANGED <<now, projectileStateRef, projectile, cameraControls,
                   cameraPosition, rafQueue, mounted, call, returned>>

\* the clock moves on; React has committed and no due timer is waiting
AdvanceWithin(steps) ==
    /\ ~syncLane
    /\ pending = rendered
    /\ \A due \in timers : due > now
    /\ now < steps * ClockStep
    /\ now' = now + ClockStep
    /\ UNCHANGED <<rendered, pending, syncLane, projectileStateRef,
                   projectile, cameraControls, cameraPosition, rafQueue,
                   timers, trajectoryLine, mounted, call, returned>>

Advance == AdvanceWithin(MaxSteps)

Next ==
    \/ Fire
    \/ Render
    \/ Frame
    \/ TimerFire
    \/ \E mode \in Modes : SelectPreset(mode)
    \/ \E a \in Angles : ChangeAngle(a)
    \/ \E v \in Velocities : ChangeVelocity(v)
    \/ TogglePanel
    \/ Advance

Spec == Init /\ [][Next]_vars

\* calls of the kinematic functions of section 5 with arguments of the
\* whole range: calculateFlightTime, then calculateTrajectory at the time
\* it returned, and calculateRange
Calls ==
    [angle : CallAngles, v0 : CallVelocities,
     y0 : {Metres(h) : h \in CallHeights}]

NothingReturned ==
    [done |-> {}, timeOfFlight |-> 0, position |-> [x |-> 0, y |-> 0],
     range |-> 0]

KinematicsInit ==
    /\ Mounted
    /\ call \in Calls
    /\ returned = NothingReturned

CallFlightTime ==
    /\ "timeOfFlight" \notin returned.done
    /\ returned' = [returned EXCEPT
                      !.done = @ \cup {"timeOfFlight"},
                      !.timeOfFlight =
                          calculateFlightTime(call.angle, call.v0, call.y0)]
    /\ UNCHANGED <<now, rendered, pending, syncLane, projectileStateRef,
                   projectile, cameraControls, cameraPosition, rafQueue,
                   timers, trajectoryLine, mounted, call>>

CallTrajectory ==
    /\ "timeOfFlight" \in returned.done
    /\ "position" \notin returned.done
    /\ returned' = [returned EXCEPT
                      !.done = @ \cup {"position"},
                      !.position =
                          calculateTrajectoryMs(call.angle, call.v0,
                                                returned.timeOfFlight,
                                                call.y0)]
    /\ UNCHANGED <<now, rendered, pending, syncLane, projectileStateRef,
                   projectile, cameraControls, cameraPosition, rafQueue,
                   timers, trajectoryLine, mounted, call>>

CallRange ==
    /\ "range" \notin returned.done
    /\ returned' = [returned EXCEPT
                      !.done = @ \cup {"range"},
                      !.range = calculateRange(call.angle, call.v0, call.y0)]
    /\ UNCHANGED <<now, rendered, pending, syncLane, projectileStateRef,
                   projectile, cameraControls, cameraPosition, rafQueue,
                   timers, trajectoryLine, mounted, call>>

\* the calls, and a flight, which stores what the functions returned
KinematicsNext ==
    \/ CallFlightTime
    \/ CallTrajectory
    \/ CallRange
    \/ Fire
    \/ Render
    \/ Frame
    \/ AdvanceWithin(MaxCameraSteps)

KinematicsSpec == KinematicsInit /\ [][KinematicsNext]_vars

\* the camera: the pointer and the wheel, the four presets, fire and the
\* frames, with the launch parameters left as mounted
CameraNext ==
    \/ \E e \in PointerPositions : MouseDown(e)
    \/ \E e \in PointerPositions : MouseMove(e)
    \/ MouseUp
    \/ \E deltaY \in WheelDeltas : Wheel(deltaY)
    \/ \E mode \in Presets : SelectPreset(mode)
    \/ Fire
    \/ Render
    \/ Frame
    \/ TimerFire
    \/ AdvanceWithin(MaxCameraSteps)

CameraSpec == Init /\ [][CameraNext]_vars

\* the preset transitions: presets selected while transitions run, with
\* the pointer and the wheel between their frames; follow is the preset
\* that sets the reset timer, side one of the three that do not and the
\* one from whose azimuth a drag stays within MaxAzimuth
OverlapPresets == {"follow", "side"}

TransitionNext ==
    \/ \E e \in PointerPositions : MouseDown(e)
    \/ \E e \in PointerPositions : MouseMove(e)
    \/ MouseUp
    \/ \E deltaY \in WheelDeltas : Wheel(deltaY)
    \/ \E mode \in OverlapPresets : SelectPresetWithin(mode, MaxOverlap)
    \/ Frame
    \/ TimerFire
    \/ AdvanceWithin(MaxCameraSteps)

TransitionSpec == Init /\ [][TransitionNext]_vars

\* the pointer and the wheel on the canvas, with a flight under way or not
PointerNext ==
    \/ \E e \in DragSamples : MouseDown(e)
    \/ \E e \in DragSamples : MouseMove(e)
    \/ MouseUp
    \/ \E deltaY \in WheelDeltas : Wheel(deltaY)
    \/ Fire
    \/ Render
    \/ Frame
    \/ AdvanceWithin(MaxCameraSteps)

PointerSpec == Init /\ [][PointerNext]_vars

\* flights run to their end: fire() is called in the first FireBySteps
\* steps of the clock, at 15 or 45 degrees and the initial 20 m/s, and the
\* clock then runs on for the longest flight.  React commits what is
\* queued; however often the handlers are called, the browser goes on
\* delivering animation frames and timer callbacks, and time passes.
FireInTime ==
    /\ now <= FireBySteps * ClockStep
    /\ Fire

CompletionNext ==
    \/ FireInTime
    \/ Render
    \/ Frame
    \/ TimerFire
    \/ \E mode \in Modes : SelectPreset(mode)
    \/ \E a \in Angles : ChangeAngle(a)
    \/ TogglePanel
    \/ AdvanceWithin(FireBySteps + FlightSteps)

CompletionSpec ==
    /\ Init
    /\ [][CompletionNext]_vars
    /\ WF_vars(Render)
    /\ SF_vars(TimerFire)
    /\ SF_vars(Frame)
    /\ SF_vars(AdvanceWithin(FireBySteps + FlightSteps))

\* the life of the component to its unmounting and after
LifecycleNext == Next \/ Teardown

LifecycleSpec == Init /\ [][LifecycleNext]_vars

(***************************************************************************)
(* Vocabulary of the properties.                                           *)
(***************************************************************************)
\* the flight phase: Flying while the flight loop's active flag is set
Flying == projectileStateRef.active

\* a reading of the clock by a flight closure c, as animate computes it
ElapsedOf(c) == now - c.startTime
PositionOf(c) ==
    calculateTrajectory(c.cannonAngle, c.initialVelocity, ElapsedOf(c), c.y0)
WorldPositionOf(c) == Vector3(c.startX + PositionOf(c).x, PositionOf(c).y, 0)

\* the step is an animation frame in which a running flight loop ticks
\* and something changes; the cheap conjuncts come first, Frame implies them
FlightTick ==
    /\ vars' # vars
    /\ Flying
    /\ ~syncLane
    /\ FlightLoops(rafQueue) # <<>>
    /\ now' = now
    /\ rendered' = rendered
    /\ timers' = timers
    /\ Frame

\* the three readouts written at fire
Derived(data) == <<data.range, data.maxHeight, data.timeOfFlight>>

\* what fireProjectile computes from an angle and a velocity
CapturedAtFire ==
    [a \in Angles, v \in Velocities |->
       LET y0 == MuzzleHeight(a)
           timeOfFlight == calculateFlightTime(a, v, y0)
       IN  [y0 |-> y0,
            startX |-> MuzzleX(a),
            timeOfFlight |-> timeOfFlight,
            derived |-> <<ToFixed2(calculateRange(a, v, y0)),
                          ToFixed2(calculateMaxHeight(a, v, y0)),
                          (timeOfFlight + 5) \div 10>>]]

SceneOriginTarget == Vector3(0, Metres(5), 0)

(***************************************************************************)
(* C1.  At most one flight: calling fire() twice in immediate succession   *)
(* leaves exactly one running flight loop, with the parameters and start   *)
(* time of the first call.                                                 *)
(***************************************************************************)
C1_AtMostOneFlightLoop == Len(FlightLoops(rafQueue)) <= 1

(***************************************************************************)
(* C2.  fire() invoked while the phase is Flying changes nothing: the      *)
(* rendered and queued state, the flight, the projectile, the side panel   *)
(* and the camera are as before the call.                                  *)
(***************************************************************************)
C2_FireWhileFlyingIsNoOp ==
    [][(Fire /\ Flying) =>
         UNCHANGED <<rendered, pending, projectileStateRef, projectile,
                     cameraControls, cameraPosition, rafQueue, timers>>]_vars

(***************************************************************************)
(* C3.  While a flight is in progress no step changes the launch angle or  *)
(* the muzzle velocity, rendered or queued: a change request that arrives  *)
(* then is ignored.                                                        *)
(***************************************************************************)
C3_ParametersFrozenWhileFlying ==
    [][Flying =>
         /\ rendered'.cannonAngle = rendered.cannonAngle
         /\ rendered'.initialVelocity = rendered.initialVelocity
         /\ pending'.cannonAngle = pending.cannonAngle
         /\ pending'.initialVelocity = pending.initialVelocity]_vars

\* a flight is in progress with its inputs disabled, fired with parameters
\* that had been changed before it
C3_Witness ==
    /\ Flying
    /\ InputsDisabled
    /\ rendered.cannonAngle # InitialState.cannonAngle
    /\ rendered.initialVelocity # InitialState.initialVelocity

C5_LandingPredicate ==
    [][FlightTick =>
         LET q == FlightLoops(rafQueue)
             c == q[1]
             lands == \/ PositionOf(c).y < 0
                      \/ ElapsedOf(c) * 100 > c.timeOfFlight + LandingGraceMs
         IN  IF lands
             THEN /\ ~Flying'
                  /\ projectile'.position = projectile.position
                  /\ pending'.projectileData = pending.projectileData
                  /\ FlightLoops(rafQueue') = <<>>
             ELSE /\ Flying'
                  /\ projectile'.position = WorldPositionOf(c)
                  /\ pending'.projectileData.currentTime = ElapsedOf(c) * 10
                  /\ pending'.projectileData.position =
                       [x |-> ToFixed2(WorldPositionOf(c).x),
                        y |-> ToFixed2(WorldPositionOf(c).y)]
                  /\ FlightLoops(rafQueue') = q]_vars

\* a flight that published a tick after its launch has landed
C5_Witness ==
    /\ ~Flying
    /\ ~projectile.visible
    /\ pending.projectileData.currentTime > 0
    /\ Len(FlightLoops(rafQueue)) = 0

(***************************************************************************)
(* C6.  The published height is never below 0: neither the projectile      *)
(* object's y nor the readout position.y, rendered or queued.              *)
(***************************************************************************)
C6_HeightNeverNegative ==
    /\ projectile.position.y >= 0
    /\ pending.projectileData.position.y >= 0
    /\ rendered.projectileData.position.y >= 0

\* a flight in progress whose last tick published a height above the muzzle
C6_Witness ==
    /\ Flying
    /\ projectile.visible
    /\ \E i \in 1..Len(rafQueue) :
         /\ rafQueue[i].kind = "flight"
         /\ projectile.position.y > rafQueue[i].y0
    /\ rendered.projectileData.position.y > 0

(***************************************************************************)
(* C7.  Every tick of a flight uses the values captured when fire() was    *)
(* accepted: each registered flight loop carries y0, launch origin and     *)
(* timeOfFlight computed from its captured angle and velocity, a tick      *)
(* re-registers the loop with the same captured values, the readouts       *)
(* range, maxHeight and timeOfFlight are those of the captured values      *)
(* for the whole flight, and only a call of fire() changes them.           *)
(***************************************************************************)
C7_CapturedAtFire ==
    [][/\ \A i \in 1..Len(rafQueue) :
            LET c == rafQueue[i]
                captured == CapturedAtFire[c.cannonAngle, c.initialVelocity]
            IN  c.kind = "flight" =>
                  /\ c.y0 = captured.y0
                  /\ c.startX = captured.startX
                  /\ c.timeOfFlight = captured.timeOfFlight
                  /\ Flying =>
                       Derived(pending.projectileData) = captured.derived
       /\ (FlightTick /\ Flying') =>
            FlightLoops(rafQueue') = FlightLoops(rafQueue)
       /\ Derived(pending'.projectileData) # Derived(pending.projectileData)
            => Fire]_vars

\* a flight whose ticks have advanced the elapsed time and the position
\* while the rendered readouts are still those written at fire
C7_Witness ==
    /\ Flying
    /\ rendered.projectileData.currentTime > 0
    /\ rendered.projectileData.range > 0
    /\ \E i \in 1..Len(rafQueue) :
         /\ rafQueue[i].kind = "flight"
         /\ rendered.projectileData.timeOfFlight =
              (rafQueue[i].timeOfFlight + 5) \div 10

(***************************************************************************)
(* C8.  The landing tick hides the projectile, queues the firing flag      *)
(* false and the side panel open and publishes no position, and the        *)
(* transition back to Idle clears the camera's tracking target: once the   *)
(* landing is committed, a target that still holds the position the        *)
(* flight published has its reset pending.                                 *)
(***************************************************************************)
C8_LandingTransition ==
    /\ [][(FlightTick /\ ~Flying') =>
            /\ ~projectile'.visible
            /\ ~pending'.isFiring
            /\ pending'.showPanel
            /\ projectile'.position = projectile.position
            /\ pending'.projectileData = pending.projectileData]_vars
    /\ [][((/\ ~Flying
             /\ ~rendered.isFiring
             /\ pending = rendered
             /\ cameraControls.target = projectile.position)
            => timers # {})']_vars

(***************************************************************************)
(* C9.  Tracking: a tick that publishes a position overwrites the camera   *)
(* target with it exactly when the camera mode at the time of the tick is  *)
(* follow.                                                                 *)
(***************************************************************************)
C9_TracksCurrentMode ==
    [][(FlightTick /\ Flying') =>
         (cameraControls'.target = projectile'.position
            <=> rendered.cameraMode = "follow")]_vars

(***************************************************************************)
(* C10.  A flight that lands in follow mode has the camera target reset   *)
(* to the scene origin target 500 ms after the landing is committed; a    *)
(* reset is scheduled only by a landing, and a reset never changes the    *)
(* target while a flight is Flying.                                       *)
(***************************************************************************)
C10_ResetOnlyAfterLanding ==
    [][/\ (Render /\ rendered.isFiring /\ ~pending.isFiring
             /\ pending.cameraMode = "follow")
            => (now + ResetDelay) \in timers'
       /\ TimerFire => cameraControls'.target = SceneOriginTarget
       /\ ~(timers' \subseteq timers)
            => (rendered.isFiring /\ ~rendered'.isFiring)
       /\ (TimerFire /\ Flying)
            => cameraControls'.target = cameraControls.target]_vars

(***************************************************************************)
(* C11.  Whatever the pointer, the wheel, the presets, fire and the frames *)
(* do, the camera's elevation stays within [0.1, pi/2 - 0.1] and its       *)
(* distance within [5, 100].                                               *)
(***************************************************************************)
C11_PoseWithinClamps ==
    /\ cameraControls.rotation.x >= MinElevation
    /\ cameraControls.rotation.x <= MaxElevation
    /\ cameraControls.distance >= MinDistance
    /\ cameraControls.distance <= MaxDistance

\* a drag has pushed the elevation to its upper clamp and the wheel the
\* distance to its lower clamp, while a fired flight is ticking
C11_Witness ==
    /\ cameraControls.rotation.x = MaxElevation
    /\ cameraControls.distance = MinDistance
    /\ cameraControls.isDragging
    /\ Flying
    /\ rendered.projectileData.currentTime > 0

\* the logical pose: azimuth and elevation, distance, target
LogicalPose(controls) ==
    [rotation |-> controls.rotation,
     distance |-> controls.distance,
     target   |-> controls.target]

(***************************************************************************)
(* C12.  Selecting a preset sets the logical pose to the preset's tuple at *)
(* once, with the transition's first frame still to come, and a move of a  *)
(* drag made while a transition runs adds its deltas to the logical        *)
(* azimuth and elevation (the preset's, if nothing moved them since) and   *)
(* derives the eye from the result.                                        *)
(***************************************************************************)
C12_PresetPoseImmediate ==
    [][/\ \A mode \in Presets :
            (/\ rendered'.cameraMode = mode
             /\ Len(rafQueue') > Len(rafQueue)
             /\ SelectPreset(mode))
            => /\ LogicalPose(cameraControls') = PresetPose(mode)
               /\ Transitions(rafQueue') # <<>>
       /\ \A e \in PointerPositions :
            (/\ cameraControls.isDragging
             /\ Transitions(rafQueue) # <<>>
             /\ MouseMove(e))
            => LET prev == cameraControls.previousMousePosition
                   rot  == cameraControls.rotation
               IN  /\ cameraControls'.rotation.y
                        = rot.y + (e.x - prev.x) * RotateSpeed
                   /\ cameraControls'.rotation.x
                        = Clamp(MinElevation, MaxElevation,
                                rot.x + (e.y - prev.y) * RotateSpeed)
                   /\ LogicalPose(cameraControls) =
                        PresetPose(rendered.cameraMode)
                        => cameraControls'.rotation.y
                             = PresetPose(rendered.cameraMode).rotation.y
                               + (e.x - prev.x) * RotateSpeed
                   /\ cameraPosition' = EyePosition(cameraControls')]_vars

\* a transition to the rendered preset is running, and a drag has moved
\* the azimuth away from the preset's by the drag's delta
C12_Witness ==
    /\ Transitions(rafQueue) # <<>>
    /\ cameraControls.isDragging
    /\ cameraControls.distance = PresetPose(rendered.cameraMode).distance
    /\ cameraControls.target = PresetPose(rendered.cameraMode).target
    /\ \E e1, e2 \in PointerPositions :
         /\ e1 # e2
         /\ cameraControls.previousMousePosition = e2
         /\ cameraControls.rotation.y
              = PresetPose(rendered.cameraMode).rotation.y
                + (e2.x - e1.x) * RotateSpeed
    /\ cameraPosition = EyePosition(cameraControls)
    /\ cameraPosition # Transitions(rafQueue)[1].startPos

(***************************************************************************)
(* C13.  After teardown nothing is left registered and nothing changes:    *)
(* once the component has unmounted no frame callback and no reset timer   *)
(* is pending, and the flight state, the projectile, the camera pose, the  *)
(* eye position and the UI state stay as they were.                        *)
(***************************************************************************)
C13_NothingAfterTeardown ==
    [][/\ ~mounted' => (rafQueue' = <<>> /\ timers' = {})
       /\ ~mounted => UNCHANGED <<projectileStateRef, projectile,
                                  cameraControls, cameraPosition, rendered,
                                  pending, trajectoryLine>>]_vars

\* of the call in progress: the vertical launch speed in mm/s, the
\* discriminant vy^2 + 2*g*y0, and the speed of the fall at the landing
CallVy == call.v0 * SinDeg(call.angle)
CallDiscriminant == CallVy * CallVy + GRAVITY * call.y0
CallLandingSpeed == Sqrt(CallDiscriminant)

C15_FlightTimeNonNegative ==
    /\ "timeOfFlight" \in returned.done =>
         /\ returned.timeOfFlight >= 0
         /\ CallDiscriminant < 0 => returned.timeOfFlight = 0
         /\ CallDiscriminant >= 0 =>
              returned.timeOfFlight =
                RoundDiv((CallVy + CallLandingSpeed) * 100, GRAVITY)
    /\ \A i \in 1..Len(rafQueue) :
         rafQueue[i].kind = "flight" => rafQueue[i].timeOfFlight >= 0
    /\ pending.projectileData.timeOfFlight >= 0
    /\ rendered.projectileData.timeOfFlight >= 0

\* flightTime has returned 0 for a launch with a negative discriminant,
\* and a flight is under way with the flight time it stored
C15_Witness ==
    /\ "timeOfFlight" \in returned.done
    /\ CallDiscriminant < 0
    /\ returned.timeOfFlight = 0
    /\ Flying
    /\ rendered.projectileData.timeOfFlight > 0
    /\ \E i \in 1..Len(rafQueue) :
         rafQueue[i].kind = "flight" /\ rafQueue[i].timeOfFlight > 0

\* of the preview on the screen: the launch of the committed render it was
\* built for, its samples before the filter, and the one-sample mutant
PreviewY0 == MuzzleHeight(rendered.cannonAngle)
PreviewFlightTime ==
    calculateFlightTime(rendered.cannonAngle, rendered.initialVelocity,
                        PreviewY0)
PreviewSampleAt(i) ==
    PreviewSample(rendered.cannonAngle, rendered.initialVelocity, PreviewY0,
                  PreviewFlightTime, i)

(***************************************************************************)
(* C16.  The trajectory preview has at least 101 points, the k-th of them  *)
(* the sample at t = ((k-1)/100)*flightTime of the launch (x offset by the *)
(* muzzle), in increasing order of k, each with y >= 0.                    *)
(***************************************************************************)
C16_PreviewHasEverySample ==
    /\ Len(trajectoryLine) >= PreviewSteps + 1
    /\ \A k \in 1..Len(trajectoryLine) :
         /\ trajectoryLine[k] = PreviewSampleAt(k - 1)
         /\ trajectoryLine[k].y >= 0

(***************************************************************************)
(* C17.  The last point of the preview is the landing: its height is at    *)
(* most 0 (to within the rounding of the flight time) and its x is the     *)
(* range plus the muzzle offset to within one sampling step.               *)
(***************************************************************************)
C17_LastPointIsLanding ==
    LET last == trajectoryLine[Len(trajectoryLine)]
        vy   == rendered.initialVelocity * SinDeg(rendered.cannonAngle)
        tolerance == (3 * Sqrt(vy * vy + GRAVITY * PreviewY0)) \div 250 + 2
        landing == MuzzleX(rendered.cannonAngle)
                   + calculateRange(rendered.cannonAngle,
                                    rendered.initialVelocity, PreviewY0)
        step == PreviewSampleAt(PreviewSteps).x
                - PreviewSampleAt(PreviewSteps - 1).x
    IN  /\ Len(trajectoryLine) > 0
        /\ last.y <= tolerance
        /\ last.x <= landing + step
        /\ last.x >= landing - step

\* a preset transition is in progress: one of its frames is registered
TransitionInProgress ==
    \E i \in 1..Len(rafQueue) : rafQueue[i].kind = "preset"

(***************************************************************************)
(* C18.  In every state with no preset transition in progress the eye of   *)
(* the camera is the eye derived from the logical pose: target +           *)
(* distance * (sin(azimuth)cos(elevation), sin(elevation),                 *)
(* cos(azimuth)cos(elevation)).                                            *)
(***************************************************************************)
C18_EyeIsDerivedPose ==
    ~TransitionInProgress => cameraPosition = EyePosition(cameraControls)

\* Idle, and no flight has been fired since the mount
IdleSinceMount ==
    /\ ~Flying
    /\ ~rendered.isFiring
    /\ ~pending.isFiring
    /\ pending.projectileData.timeOfFlight = 0

(***************************************************************************)
(* C19.  A preset selected while Idle sets the logical pose (azimuth,      *)
(* elevation, distance, target) to its tuple, and with no further input    *)
(* the pose is that tuple in every later state: no step other than an      *)
(* input (a frame, a timer, the passing of time) changes it.               *)
(***************************************************************************)
C19_PresetPoseKept ==
    [][/\ \A mode \in Modes :
            (IdleSinceMount /\ SelectPreset(mode))
              => LogicalPose(cameraControls') = PresetPose(mode)
       /\ (/\ IdleSinceMount
           /\ LogicalPose(cameraControls) = PresetPose(rendered.cameraMode)
           /\ pending' = pending
           /\ rendered' = rendered)
            => LogicalPose(cameraControls') = PresetPose(rendered.cameraMode)
      ]_vars

\* the transition of closure c has run for its whole duration
Finished(c) == c.kind = "preset" /\ now - c.startTime >= TransitionDuration

\* the heap after the first i callbacks of the frame have run
AfterCallbacks(i) ==
    RunCallbacks(SubSeq(rafQueue, 1, i), [Heap EXCEPT !.rafQueue = <<>>])

(***************************************************************************)
(* C20.  Every preset transition ends.  In an animation frame, a           *)
(* transition callback that runs with elapsed >= 500 ms leaves the eye at  *)
(* the eye derived from the logical pose of that moment and requests no    *)
(* further frame: after the frame no transition that has run for 500 ms    *)
(* is registered, and when the last transition callback of the frame was   *)
(* such a one the frame ends with the eye at the derived eye.  Presets,    *)
(* drags and wheel events between the frames do not change this.           *)
(***************************************************************************)
C20_TransitionEnds ==
    [][(rafQueue # <<>> /\ now' = now /\ rendered' = rendered /\ Frame) =>
         /\ \A i \in 1..Len(rafQueue) :
              Finished(rafQueue[i]) =>
                LET before == AfterCallbacks(i - 1)
                    after  == AfterCallbacks(i)
                IN  /\ after.cameraPosition = EyePosition(after.cameraControls)
                    /\ after.rafQueue = before.rafQueue
         /\ \A i \in 1..Len(rafQueue') : ~Finished(rafQueue'[i])
         /\ (\E i \in 1..Len(rafQueue) :
               /\ Finished(rafQueue[i])
               /\ \A j \in (i + 1)..Len(rafQueue) :
                    rafQueue[j].kind # "preset")
              => cameraPosition' = EyePosition(cameraControls')
      ]_vars

\* after follow and then side were selected at the same instant (the
\* pending reset is follow's), and the wheel and a drag moved the pose,
\* both transitions have run their last frame: none is registered and the
\* eye is the eye derived from the pose
C20_Witness ==
    /\ now >= TransitionDuration
    /\ Transitions(rafQueue) = <<>>
    /\ rendered.cameraMode = "side"
    /\ timers # {}
    /\ cameraControls.isDragging
    /\ cameraControls.distance # PresetPose("side").distance
    /\ cameraControls.rotation # PresetPose("side").rotation
    /\ cameraPosition = EyePosition(cameraControls)

\* the frame makes a flight loop's landing predicate true
LandingTick ==
    /\ FlightTick
    /\ \E i \in 1..Len(rafQueue) :
         /\ rafQueue[i].kind = "flight"
         /\ Landed(PositionOf(rafQueue[i]), ElapsedOf(rafQueue[i]),
                   rafQueue[i].timeOfFlight)

(***************************************************************************)
(* C21.  Every accepted flight runs to completion: with frames delivered   *)
(* and the clock advancing, Flying leads to Idle with the projectile       *)
(* hidden and the controls enabled again (the committed isFiring false),   *)
(* and only a landing tick ends a flight.                                  *)
(***************************************************************************)
C21_FlightCompletes ==
    /\ Flying ~> (~Flying /\ ~projectile.visible /\ ~rendered.isFiring)
    /\ [][(Flying /\ ~Flying') => LandingTick]_vars

\* the longest flight, fired at the last moment, has landed and the landing
\* is committed: the controls are enabled
C21_Witness ==
    /\ ~Flying
    /\ ~projectile.visible
    /\ ~rendered.isFiring
    /\ rendered.showPanel
    /\ rendered.projectileData.timeOfFlight > 0
    /\ rendered.projectileData.currentTime >= 300
    /\ now = (FireBySteps + FlightSteps) * ClockStep

NotW21 == ~C21_Witness
L1 == Flying ~> (~Flying /\ ~projectile.visible /\ ~rendered.isFiring)
L2 == [][(Flying /\ ~Flying') => LandingTick]_vars
\* what a drag has added to the azimuth since its pointer-down, less the
\* part the last pointer sample accounts for: the azimuth at the
\* pointer-down less RotateSpeed times the x of the pointer-down
AzimuthAtOrigin(controls) ==
    controls.rotation.y - controls.previousMousePosition.x * RotateSpeed

(***************************************************************************)
(* C22.  Drag updates are incremental against the previous pointer sample. *)
(* A pointer-down stores its sample and leaves the pose alone.  A move of  *)
(* a drag adds 0.005 * (x - previous x) to the azimuth and stores the      *)
(* sample, so that azimuth - 0.005 * (x of the last sample) is the same    *)
(* after every move of the drag as at the pointer-down; the azimuth after  *)
(* a move is the same whether or not another sample came before it; and    *)
(* the elevation changes by 0.005 * dy followed by the clamp.              *)
(***************************************************************************)
C22_DragIncremental ==
    [][\A e \in DragSamples :
         /\ (cameraControls'.isDragging /\ MouseDown(e)) =>
              /\ cameraControls'.rotation = cameraControls.rotation
              /\ cameraControls'.previousMousePosition = e
         /\ (cameraControls.isDragging /\ cameraControls'.isDragging
               /\ MouseMove(e)) =>
              LET prev == cameraControls.previousMousePosition
                  rot  == cameraControls.rotation
              IN  /\ cameraControls'.previousMousePosition = e
                  /\ AzimuthAtOrigin(cameraControls')
                       = AzimuthAtOrigin(cameraControls)
                  /\ cameraControls'.rotation.x
                       = Clamp(MinElevation, MaxElevation,
                               rot.x + (e.y - prev.y) * RotateSpeed)
                  /\ \A between \in DragSamples :
                       handleMouseMove(
                           e, handleMouseMove(between, cameraControls)
                         ).rotation.y = cameraControls'.rotation.y
      ]_vars

\* a drag of two moves from the initial pose: the pointer went down at
\* x = 300 and moved to x = 0, where the elevation met the lower clamp,
\* and back to x = 100; the azimuth is the initial one and 0.005 * (100 -
\* 300), the elevation the clamp and 0.005 * 100
C22_Witness ==
    /\ cameraControls.isDragging
    /\ cameraControls.previousMousePosition = [x |-> 100, y |-> 100]
    /\ cameraControls.rotation.y
         = PresetPose("overview").rotation.y + (100 - 300) * RotateSpeed
    /\ cameraControls.rotation.x = MinElevation + 100 * RotateSpeed
    /\ cameraPosition = EyePosition(cameraControls)

\* the step is an event of the pointer or the wheel on the canvas
PointerEvent ==
    \/ \E e \in DragSamples : MouseDown(e) \/ MouseMove(e)
    \/ MouseUp
    \/ \E deltaY \in WheelDeltas : Wheel(deltaY)

(***************************************************************************)
(* C23.  A pointer-move changes the camera only during a drag: with no     *)
(* drag on (before a pointer-down, after a pointer-up or pointer-leave) no *)
(* move changes anything, pose and eye included; a pointer-up or           *)
(* pointer-leave ends the drag; and no event of the pointer or the wheel   *)
(* changes the flight: the active flag, the projectile, the flight loops,  *)
(* the rendered and the queued state.                                      *)
(***************************************************************************)
C23_MoveOnlyWhileDragging ==
    /\ [](~cameraControls.isDragging =>
            \A e \in DragSamples : ~ENABLED <<MouseMove(e)>>_vars)
    /\ [][/\ MouseUp => ~cameraControls'.isDragging
          /\ PointerEvent =>
               UNCHANGED <<projectileStateRef, projectile, rafQueue,
                           rendered, pending, syncLane, now>>]_vars

\* a drag has ended away from the initial pose, the wheel has zoomed in to
\* the clamp, and a flight is under way
C23_Witness ==
    /\ ~cameraControls.isDragging
    /\ cameraControls.rotation # PresetPose("overview").rotation
    /\ cameraControls.distance = MinDistance
    /\ cameraPosition = EyePosition(cameraControls)
    /\ Flying
    /\ projectile.visible
    /\ rendered.projectileData.currentTime > 0

\* launchOrigin of a flight at an angle: the muzzle
LaunchOrigin(angle) == [x |-> MuzzleX(angle), y |-> MuzzleHeight(angle)]

\* position(angle, v0, elapsed, y0) of flight closure c, from its captured
\* angle and velocity and the launch height of that angle
PositionFromLaunch(c) ==
    calculateTrajectory(c.cannonAngle, c.initialVelocity, ElapsedOf(c),
                        LaunchOrigin(c.cannonAngle).y)

\* a call of fire() that the guard lets through
FireAccepted == ~FireRejected /\ projectileStateRef'.active /\ Fire

(***************************************************************************)
(* C24, as stated.  Every position a Flying tick publishes is launchOrigin *)
(* + position(angle, v0, elapsed, y0) componentwise, with launchOrigin =   *)
(* (barrelLength*cos(angle), mountHeight + barrelLength*sin(angle)); the   *)
(* tick at elapsed = 0 publishes the muzzle position.                      *)
(***************************************************************************)
C24_OriginPlusPosition ==
    [][/\ (FlightTick /\ Flying') =>
            LET c == FlightLoops(rafQueue)[1]
                origin == LaunchOrigin(c.cannonAngle)
                pos == PositionFromLaunch(c)
            IN  projectile'.position
                  = Vector3(origin.x + pos.x, origin.y + pos.y, 0)
       /\ FireAccepted =>
            LET origin == LaunchOrigin(rendered.cannonAngle)
            IN  projectile'.position = Vector3(origin.x, origin.y, 0)]_vars

(***************************************************************************)
(* C24, amended.  Every position a Flying tick publishes is                *)
(* (launchOrigin.x + pos.x, pos.y) for pos = position(angle, v0, elapsed,  *)
(* y0) with y0 = launchOrigin.y, the launch height being part of pos.y     *)
(* already; the projectile object and the readout (to two decimals) both   *)
(* show it, and the tick at elapsed = 0 publishes the muzzle position.     *)
(***************************************************************************)
C24_OffsetInXOnly ==
    [][/\ (FlightTick /\ Flying') =>
            LET c == FlightLoops(rafQueue)[1]
                origin == LaunchOrigin(c.cannonAngle)
                pos == PositionFromLaunch(c)
            IN  /\ projectile'.position = Vector3(origin.x + pos.x, pos.y, 0)
                /\ pending'.projectileData.position =
                     [x |-> ToFixed2(origin.x + pos.x), y |-> ToFixed2(pos.y)]
       /\ FireAccepted =>
            LET origin == LaunchOrigin(rendered.cannonAngle)
            IN  /\ projectile'.position = Vector3(origin.x, origin.y, 0)
                /\ pending'.projectileData.position =
                     [x |-> ToFixed2(origin.x), y |-> ToFixed2(origin.y)]
      ]_vars

\* a flight one second or more after its launch: the projectile is where
\* the tick put it, downrange of the muzzle by pos.x and at height pos.y
C24_Witness ==
    /\ Flying
    /\ \E i \in 1..Len(rafQueue) :
         LET c == rafQueue[i]
         IN  /\ c.kind = "flight"
             /\ ElapsedOf(c) >= 10
             /\ projectile.position =
                  Vector3(LaunchOrigin(c.cannonAngle).x
                            + PositionFromLaunch(c).x,
                          PositionFromLaunch(c).y, 0)
             /\ projectile.position.x > LaunchOrigin(c.cannonAngle).x
             /\ projectile.position.y # LaunchOrigin(c.cannonAngle).y

(***************************************************************************)
(* C25.  In every reachable state the three flight indicators agree: the   *)
(* projectile is visible iff the flight loop's active flag is set iff the  *)
(* firing flag that disables the Fire button and the parameter inputs (the *)
(* isFiring of the current render) is set.                                 *)
(***************************************************************************)
C25_IndicatorsAgree ==
    /\ projectile.visible <=> projectileStateRef.active
    /\ projectileStateRef.active <=> rendered.isFiring

====
